---- MODULE Spec2Model ----
(***************************************************************************)
(* A model of filenav's common.py: the favorites list and its JSON file,   *)
(* FileItem and the data sources built on it, format_size, and the table   *)
(* view handlers.  Python's 0-based rows are kept; a sequence index is the *)
(* row plus one.  None is modelled as the empty sequence of an optional    *)
(* value: <<>> is None and <<v>> is the value v.                           *)
(***************************************************************************)
EXTENDS Integers, Sequences, FiniteSets, TLC

VARIABLES
    \* FavoritesDataSource
    src_file,      \* the text of the file at self.src, as JSON tokens
    entries,       \* self.entries
    fav_call,      \* the last call made on the favorites data source
    \* format_size
    size,          \* the argument size, [m, e] standing for m * 1024^e
    longf,         \* the argument longf
    result,        \* None before the call, the returned text after it
    \* the filesystem, a FileItem and the data sources built on it
    fs,            \* the filesystem under the item's path
    fi,            \* the FileItem
    fds,           \* the FileDataSource built on fi, None before it is built
    sds,           \* the StatDataSource built on fi, None before it is built
    last_op,       \* the operation that ran last
    exc,           \* the exception the last operation raised, None if none
    \* the table views built by make_favs_list, make_file_list, make_stat_view
    editing,       \* tableview.editing of each view
    button_title,  \* the title of each view's Edit button
    ui_call,       \* the handler that ran last, its arguments, and the view's
                   \* editing flag when it ran
    effects,       \* the calls that handler made on the app and the host
    \* get_fileinfo
    info_path,     \* the argument path
    info_isdir,    \* what os.path.isdir(path) returns
    info           \* None before the call, the returned FileInfo after it

favVars == <<src_file, entries, fav_call>>
sizeVars == <<size, longf, result>>
fileVars == <<fs, fi, fds, sds, last_op, exc>>
uiVars == <<editing, button_title, ui_call, effects>>
infoVars == <<info_path, info_isdir, info>>

vars == <<src_file, entries, fav_call, size, longf, result,
          fs, fi, fds, sds, last_op, exc, editing, button_title, ui_call,
          effects, info_path, info_isdir, info>>

(***************************************************************************)
(* Bounds.                                                                 *)
(***************************************************************************)
MaxEntries == 3
MaxMant == 1030
MaxExp == 9
MaxFavRows == 2
MaxParts == 3

(***************************************************************************)
(* The favorites list.  An entry is a [path, label] pair.                  *)
(***************************************************************************)
FavPaths == {"/docs", "/app"}
FavLabels == {"Docs", "App"}
FavEntry == {<<p, l>> : p \in FavPaths, l \in FavLabels}

SeqsUpTo(S, n) == UNION {[1..k -> S] : k \in 0..n}

\* JSON text as a sequence of tokens: punctuation or a quoted string.
Punct(c) == <<"punct", c>>
Str(s) == <<"str", s>>

RECURSIVE DumpItems(_)
DumpItems(es) ==
    IF es = <<>> THEN <<>>
    ELSE <<Punct("["), Str(es[1][1]), Punct(","), Str(es[1][2]), Punct("]")>>
         \o (IF Len(es) > 1 THEN <<Punct(",")>> ELSE <<>>)
         \o DumpItems(Tail(es))

\* json.dump(self.entries, f, indent=4): a list of two-element lists.
JsonDump(es) == <<Punct("[")>> \o DumpItems(es) \o <<Punct("]")>>

\* json.load(f) of such a text: each "[" str "," str "]" group is one entry.
RECURSIVE LoadItems(_)
LoadItems(toks) ==
    IF Len(toks) < 5 THEN <<>>
    ELSE <<(<<toks[2][2], toks[4][2]>>)>>
         \o LoadItems(IF Len(toks) > 5 THEN SubSeq(toks, 7, Len(toks)) ELSE <<>>)

JsonLoad(text) == LoadItems(SubSeq(text, 2, Len(text) - 1))

\* del lst[row]
ListDel(lst, row) == SubSeq(lst, 1, row) \o SubSeq(lst, row + 2, Len(lst))

\* lst.insert(row, x) for row >= 0: past the end it appends.
ListInsert(lst, row, x) ==
    LET i == IF row > Len(lst) THEN Len(lst) ELSE row
    IN  SubSeq(lst, 1, i) \o <<x>> \o SubSeq(lst, i + 1, Len(lst))

(***************************************************************************)
(* format_size.  A size is [m, e], the number m * 1024^e with m below 2^21, *)
(* so that sizes of 1024^9 bytes and more are within reach of 32-bit       *)
(* arithmetic.  float(size) is exact for such a size, and so is each       *)
(* division by 1024.0: a quotient is again [m, e], with e negative once the *)
(* value has a fractional part.                                            *)
(***************************************************************************)
SIZE_SUFFIXES == <<"bytes", "KiB", "MiB", "GiB", "TiB", "PiB", "EiB", "ZiB", "YiB">>

Mantissas == (0..MaxMant) \cup (1048570..1048577)
Sizes == [m : Mantissas, e : 0..MaxExp]

\* 1024^j, for the j in 0..2 that a value of at least 1 with m below 2^21 needs
Pow1024(j) == IF j = 0 THEN 1 ELSE IF j = 1 THEN 1024 ELSE 1048576

\* v < 1024
Below1024(v) ==
    IF v.m = 0 THEN TRUE
    ELSE IF v.e >= 1 THEN FALSE
    ELSE IF v.e >= -1 THEN v.m < 1024 * Pow1024(-v.e)
    ELSE TRUE

\* size /= 1024.0
Div1024(v) == [m |-> v.m, e |-> v.e - 1]

\* for suffix in SIZE_SUFFIXES[1:]: size /= 1024.0; if size < 1024.0: break
\* k is the 0-based index of the suffix the loop is at.
RECURSIVE ShortenLoop(_, _)
ShortenLoop(v, k) ==
    LET q == Div1024(v)
    IN  IF Below1024(q) \/ k = Len(SIZE_SUFFIXES) - 1
        THEN [value |-> q, k |-> k]
        ELSE ShortenLoop(q, k + 1)

\* n / d rounded to the nearest integer, ties to even
RoundHalfEven(n, d) ==
    LET q == n \div d
        r == n % d
    IN  IF 2 * r < d THEN q
        ELSE IF 2 * r > d THEN q + 1
        ELSE IF q % 2 = 0 THEN q ELSE q + 1

\* "{size:02.2f}": the value in hundredths, num * 1024^exp / 100, where exp is
\* above 0 only for a whole number too large to write out.
Format2f(v) ==
    IF v.e >= 0 THEN [num |-> v.m * 100, exp |-> v.e]
    ELSE IF v.e >= -2 THEN [num |-> RoundHalfEven(v.m * 100, Pow1024(-v.e)), exp |-> 0]
    ELSE [num |-> 0, exp |-> 0]

\* The returned text: the number shown (in hundredths), whether it is written
\* with two decimals, the suffix, and the byte count in parentheses if any.
format_size(sz, lf) ==
    IF Below1024(sz)
    THEN [num |-> sz.m * 100, exp |-> 0, decimals |-> FALSE, suffix |-> SIZE_SUFFIXES[1],
          bsize |-> <<>>]
    ELSE LET s == ShortenLoop(sz, 1)
             f == Format2f(s.value)
         IN  [num |-> f.num, exp |-> f.exp, decimals |-> TRUE,
              suffix |-> SIZE_SUFFIXES[s.k + 1],
              bsize |-> IF lf THEN <<sz>> ELSE <<>>]

(***************************************************************************)
(* File names and the type tables.  A name is the sequence of the parts    *)
(* that os.extsep separates, a path the sequence of its names.             *)
(***************************************************************************)
Lower(part) ==
    IF part = "HTML" THEN "html"
    ELSE IF part = "TXT" THEN "txt"
    ELSE part

LowerAll(name) == [i \in 1..Len(name) |-> Lower(name[i])]

\* filetypes.TYPE_GROUPS: extension -> group
TYPE_GROUPS ==
    [x \in {"txt", "py", "htm", "html", "mp3", "png", "gz", "app"} |->
        IF x = "txt" THEN "text"
        ELSE IF x = "py" THEN "code"
        ELSE IF x \in {"htm", "html"} THEN "code_tags"
        ELSE IF x = "mp3" THEN "audio"
        ELSE IF x = "png" THEN "image"
        ELSE IF x = "gz" THEN "archive"
        ELSE "app"]

\* filetypes.FILE_EXTS: extension -> description, or None
FILE_EXTS ==
    [x \in {"txt", "py", "html", "mp3", "png", "app"} |->
        IF x = "txt" THEN <<"Plain Text File">>
        ELSE IF x = "py" THEN <<"Python Script">>
        ELSE IF x = "html" THEN <<"HTML File">>
        ELSE IF x = "mp3" THEN <<"MP3 Audio">>
        ELSE IF x = "png" THEN <<"PNG Image">>
        ELSE <<>>]

\* filetypes.GROUP_ICONS: group -> (description, icon)
GROUP_ICONS ==
    [g \in {"folder", "file", "text", "code", "code_tags", "audio", "image",
            "archive", "app"} |->
        <<IF g = "folder" THEN "Folder"
          ELSE IF g = "file" THEN "File"
          ELSE IF g = "text" THEN "Plain Text File"
          ELSE IF g = "code" THEN "Source Code File"
          ELSE IF g = "code_tags" THEN "Markup File"
          ELSE IF g = "audio" THEN "Audio File"
          ELSE IF g = "image" THEN "Image File"
          ELSE IF g = "archive" THEN "Archive"
          ELSE "Application",
          <<"icon", g>> >>]

\* for part in nameparts: if part in filetypes.TYPE_GROUPS: ext = part
RECURSIVE LastKnownExt(_, _)
LastKnownExt(nameparts, ext) ==
    IF nameparts = <<>> THEN ext
    ELSE LastKnownExt(Tail(nameparts),
                      IF nameparts[1] \in DOMAIN TYPE_GROUPS
                      THEN <<nameparts[1]>> ELSE ext)

Front(sq) == SubSeq(sq, 1, Len(sq) - 1)
Last(sq) == sq[Len(sq)]

\* get_fileinfo(path); isdir is what os.path.isdir(path) returns.
get_fileinfo(path, isdir) ==
    LET name == Last(path)
        nameparts == LowerAll(name)
        basegroup == IF isdir THEN "folder" ELSE "file"
        ext == LastKnownExt(nameparts, <<>>)
        group == IF ext # <<>> THEN TYPE_GROUPS[ext[1]] ELSE basegroup
        desc0 == IF ext # <<>> /\ ext[1] \in DOMAIN FILE_EXTS
                 THEN FILE_EXTS[ext[1]]
                 ELSE <<GROUP_ICONS[group][1]>>
        desc1 == IF desc0 = <<>> THEN GROUP_ICONS[basegroup][1] ELSE desc0[1]
        plain == basegroup = "folder" /\ ext \notin {<<"app">>, <<"bundle">>, <<"git">>}
    IN  [dir |-> Front(path), name |-> name, nameparts |-> nameparts, ext |-> ext,
         group |-> group,
         desc |-> IF plain THEN GROUP_ICONS[basegroup][1] ELSE desc1,
         icon |-> IF plain THEN GROUP_ICONS[basegroup][2] ELSE GROUP_ICONS[group][2]]

(***************************************************************************)
(* The filesystem under one path: the kind of the path itself, whether a   *)
(* directory there can be listed, the size of a file there, and the kind   *)
(* of each name that may be in the directory.  A directory within it is    *)
(* empty.                                                                  *)
(***************************************************************************)
Kinds == {"missing", "file", "dir", "fifo"}
ChildKinds == {"missing", "file", "dir"}
RootNames == {<<"docs">>, <<"index", "HTML">>}
ChildOrder == << <<"notes", "txt">>, <<"sub">> >>
ChildNames == {ChildOrder[i] : i \in 1..Len(ChildOrder)}
\* The directory whose listing the table views show, in listing order.
UiOrder == << <<"site">>, <<"index", "html">>, <<"main", "py">>, <<"song", "mp3">>,
             <<"pic", "png">>, <<"data", "bin">> >>
UiNames == {UiOrder[i] : i \in 1..Len(UiOrder)}
ListingOrder == ChildOrder \o UiOrder
DirSize == [m |-> 64, e |-> 0]
FileSizes == {[m |-> 512, e |-> 0], [m |-> 3, e |-> 1]}

NoChildren == [n \in ChildNames |-> "missing"]

FsStates ==
    {[root |-> k, listable |-> TRUE, size |-> DirSize, child |-> NoChildren] :
        k \in {"missing", "fifo"}}
    \cup {[root |-> "file", listable |-> TRUE, size |-> z, child |-> NoChildren] :
            z \in FileSizes}
    \cup {[root |-> "dir", listable |-> l, size |-> DirSize, child |-> c] :
            l \in BOOLEAN, c \in [ChildNames -> ChildKinds]}

\* The kind of path in the filesystem f, for the root path or a path in it.
KindOf(f, path) ==
    IF Len(path) = 1 THEN f.root
    ELSE IF f.root = "dir" /\ Last(path) \in DOMAIN f.child THEN f.child[Last(path)]
    ELSE "missing"

\* os.path.isdir(path)
os_path_isdir(f, path) == KindOf(f, path) = "dir"

\* os.path.isfile(path)
os_path_isfile(f, path) == KindOf(f, path) = "file"

\* os.stat(path): the result, or the OSError raised
os_stat(f, path) ==
    LET k == KindOf(f, path)
    IN  IF k = "missing" THEN [ret |-> <<>>, exc |-> <<"OSError">>]
        ELSE [ret |-> <<[st_kind |-> k,
                         st_size |-> IF Len(path) = 1 THEN f.size ELSE DirSize]>>,
              exc |-> <<>>]

RECURSIVE Existing(_, _)
Existing(f, names) ==
    IF names = <<>> THEN <<>>
    ELSE (IF names[1] \in DOMAIN f.child /\ f.child[names[1]] # "missing"
          THEN <<names[1]>> ELSE <<>>)
         \o Existing(f, Tail(names))

\* os.listdir(path) of a directory: the names, or the OSError raised
os_listdir(f, path) ==
    IF Len(path) = 1
    THEN IF f.listable THEN [ret |-> Existing(f, ListingOrder), exc |-> <<>>]
         ELSE [ret |-> <<>>, exc |-> <<"OSError">>]
    ELSE [ret |-> <<>>, exc |-> <<>>]

(***************************************************************************)
(* FileItem.  An element of contents is a name (a string) or, once a       *)
(* FileDataSource has converted it, a FileItem.                            *)
(***************************************************************************)
NameElem(name) == [isItem |-> FALSE, name |-> name, item |-> <<>>]
ItemElem(item) == [isItem |-> TRUE, name |-> Last(item.path), item |-> <<item>>]

NameElems(names) == [i \in 1..Len(names) |-> NameElem(names[i])]

\* FileItem.reload without the try/except around os.listdir
FileItem_reload_unguarded(path, f) ==
    LET constants == get_fileinfo(path, os_path_isdir(f, path))
        st == os_stat(f, path)
        isdir == os_path_isdir(f, path)
        ls == os_listdir(f, path)
    IN  [item |-> [path |-> path, constants |-> constants, icon |-> constants.icon,
                   icon_cached |-> FALSE, stat |-> st.ret,
                   basetype |-> IF isdir THEN 0 ELSE 1,
                   contents |-> IF isdir /\ ls.exc = <<>> THEN <<NameElems(ls.ret)>> ELSE <<>>],
         exc |-> IF isdir THEN ls.exc ELSE <<>>]

\* FileItem.reload on an item at path: the item's new fields and the exception
\* that leaves the method.
FileItem_reload(path, f) ==
    LET constants == get_fileinfo(path, os_path_isdir(f, path))
        st == os_stat(f, path)
        isdir == os_path_isdir(f, path)
        ls == os_listdir(f, path)
    IN  [item |-> [path |-> path, constants |-> constants, icon |-> constants.icon,
                   icon_cached |-> FALSE,
                   stat |-> IF st.exc = <<>> THEN st.ret ELSE <<>>,
                   basetype |-> IF isdir THEN 0 ELSE 1,
                   contents |-> IF isdir
                                THEN (IF ls.exc = <<>> THEN <<NameElems(ls.ret)>> ELSE << <<>> >>)
                                ELSE <<>>],
         exc |-> <<>>]

\* FileItem.__new__(cls, path) for a path that is no FileItem
FileItem_new(path, f) == FileItem_reload(path, f)

FileItem_isdir(item) == item.basetype = 0

FileItem_isfile(item) == item.basetype = 1

\* FileItem.join(name)
FileItem_join(item, name) == Append(item.path, name)

\* FileItem.listdir(): the list returned, or the OSError (ENOTDIR) raised
FileItem_listdir(item) ==
    IF FileItem_isdir(item) THEN [ret |-> item.contents[1], exc |-> <<>>]
    ELSE [ret |-> <<>>, exc |-> <<"OSError">>]

(***************************************************************************)
(* The state of each part of the module while another part is exercised.   *)
(***************************************************************************)
FavCall(op, a, b) == [op |-> op, from_row |-> a, to_row |-> b]

\* FavoritesDataSource.__init__ has run on a file holding any favorites list.
IdleFav ==
    /\ src_file = JsonDump(<<>>)
    /\ entries = <<>>
    /\ fav_call = FavCall("__init__", 0, 0)

IdleSize ==
    /\ size = [m |-> 0, e |-> 0]
    /\ longf = TRUE
    /\ result = <<>>

NoCall == [view |-> "none", handler |-> "none", section |-> 0, row |-> 0,
           editing |-> FALSE]

IdleInfo ==
    /\ info_path = << <<"docs">> >>
    /\ info_isdir = FALSE
    /\ info = <<>>

IdleUi ==
    /\ editing = [v \in {"favs", "files", "stat"} |-> FALSE]
    /\ button_title = [v \in {"favs", "files"} |-> "Edit"]
    /\ ui_call = NoCall
    /\ effects = <<>>

IdleFile ==
    /\ fs = [root |-> "missing", listable |-> TRUE, size |-> DirSize, child |-> NoChildren]
    /\ fi = FileItem_new(<< <<"docs">> >>, fs).item
    /\ fds = <<>>
    /\ sds = <<>>
    /\ last_op = "FileItem.__new__"
    /\ exc = <<>>

(***************************************************************************)
(* FileDataSource.  folders, files and the two sections of lists hold      *)
(* FileItems.                                                              *)
(***************************************************************************)
\* name = self.fi.contents[i] = FileItem(self.fi.join(name)), for a name that is
\* no FileItem yet
ConvertElem(item, f, el) ==
    IF el.isItem THEN el ELSE ItemElem(FileItem_new(FileItem_join(item, el.name), f).item)

RECURSIVE SelectItems(_, _)
SelectItems(els, wantdir) ==
    IF els = <<>> THEN <<>>
    ELSE (IF FileItem_isdir(els[1].item[1]) = wantdir THEN <<els[1].item[1]>> ELSE <<>>)
         \o SelectItems(Tail(els), wantdir)

\* FileDataSource.reload on the item fi, in the filesystem f: the folders and
\* files it builds, the contents it leaves in fi, and the exception raised
\* (enumerate(None) is a TypeError).
FileDataSource_reload(item, f) ==
    IF item.contents = <<>>
    THEN [folders |-> <<>>, files |-> <<>>, contents |-> item.contents,
          exc |-> <<"TypeError">>]
    ELSE LET els == [i \in 1..Len(item.contents[1]) |->
                        ConvertElem(item, f, item.contents[1][i])]
         IN  [folders |-> SelectItems(els, TRUE), files |-> SelectItems(els, FALSE),
              contents |-> <<els>>, exc |-> <<>>]

\* FileDataSource.__init__(fi): reload(), then lists = [folders, files]
FileDataSourceInit ==
    LET r == FileDataSource_reload(fi, fs)
    IN  /\ fds = <<>> /\ sds = <<>>
        /\ exc' = r.exc
        /\ IF r.exc = <<>>
           THEN /\ fds' = <<[folders |-> r.folders, files |-> r.files,
                             lists |-> <<r.folders, r.files>>]>>
                /\ fi' = [fi EXCEPT !.contents = r.contents]
           ELSE UNCHANGED <<fds, fi>>
        /\ last_op' = "FileDataSource.__init__"
        /\ UNCHANGED <<fs, sds>>
        /\ UNCHANGED <<favVars, sizeVars, uiVars, infoVars>>

\* FileDataSource.reload(): lists is not assigned
FileDataSourceReload ==
    /\ fds # <<>>
    /\ LET r == FileDataSource_reload(fi, fs)
       IN  /\ exc' = r.exc
           /\ fds' = <<[folders |-> r.folders, files |-> r.files,
                        lists |-> fds[1].lists]>>
           /\ fi' = [fi EXCEPT !.contents = r.contents]
    /\ last_op' = "FileDataSource.reload"
    /\ UNCHANGED <<fs, sds>>
    /\ UNCHANGED <<favVars, sizeVars, uiVars, infoVars>>

\* FileDataSource.tableview_number_of_rows(tableview, section)
FileDataSource_tableview_number_of_rows(d, section) == Len(d.lists[section + 1])

(***************************************************************************)
(* StatDataSource.  A row is (key, title, detail); the detail of the size  *)
(* row is a format_size text, kept in size.  The rows whose detail is read *)
(* from the times, owner and permission bits of the stat result are not    *)
(* held in the model's stat result and are left out of stats and flags.    *)
(***************************************************************************)
Row(key, title, detail) == [key |-> key, title |-> title, detail |-> detail, size |-> <<>>]
SizeRow(key, title, sz) == [key |-> key, title |-> title, detail |-> "", size |-> <<sz>>]

BoolStr(b) == IF b THEN "True" ELSE "False"

StatRows(st) ==
    IF st # <<>>
    THEN <<SizeRow("stat.size", "Size", format_size(st[1].st_size, TRUE))>>
    ELSE <<Row("stat.error", "Error", "Failed to stat file")>>

FlagRows(st) ==
    IF st # <<>>
    THEN <<Row("flag.reg", "Is File", BoolStr(st[1].st_kind = "file")),
           Row("flag.dir", "Is Directory", BoolStr(st[1].st_kind = "dir")),
           Row("flag.fifo", "Is FIFO", BoolStr(st[1].st_kind = "fifo"))>>
    ELSE <<Row("flag.error", "Error", "Failed to stat file")>>

ActionRows(item) ==
    IF FileItem_isdir(item) THEN <<>>
    ELSE IF FileItem_isfile(item)
    THEN (IF item.constants.ext \in {<<"htm">>, <<"html">>}
          THEN <<Row("webbrowser.open", "Open Website", "webbrowser")>>
          ELSE IF item.constants.group = "image"
          THEN <<Row("console.print_image", "Show in Console", "console")>>
          ELSE IF item.constants.group = "audio"
          THEN <<Row("sound.play_sound", "Play Sound", "sound")>>
          ELSE <<>>)
         \o <<Row("ios.quick_look", "Preview", "Quick Look"),
              Row("editor.edit", "Open in Editor", "editor"),
              Row("editor.copy_edit", "Copy & Open", "editor"),
              Row("editor.copy_edit_txt", "Copy & Open as .txt", "editor"),
              Row("ios.open_in", "Open In and Share", "External Apps")>>
    ELSE <<>>

\* StatDataSource.reload on the item fi: the three lists it builds
StatDataSource_reload(item) ==
    [actions |-> ActionRows(item), stats |-> StatRows(item.stat),
     flags |-> FlagRows(item.stat)]

StatLists(r) == << <<"Actions", r.actions>>, <<"Stats", r.stats>>, <<"Flags", r.flags>> >>

\* StatDataSource.__init__(fi): reload(), then lists = the three sections
StatDataSourceInit ==
    /\ fds = <<>> /\ sds = <<>>
    /\ LET r == StatDataSource_reload(fi)
       IN  sds' = <<[actions |-> r.actions, stats |-> r.stats, flags |-> r.flags,
                     lists |-> StatLists(r)]>>
    /\ last_op' = "StatDataSource.__init__"
    /\ exc' = <<>>
    /\ UNCHANGED <<fs, fi, fds>>
    /\ UNCHANGED <<favVars, sizeVars, uiVars, infoVars>>

\* StatDataSource.reload(): lists is not assigned
StatDataSourceReload ==
    /\ sds # <<>>
    /\ LET r == StatDataSource_reload(fi)
       IN  sds' = <<[actions |-> r.actions, stats |-> r.stats, flags |-> r.flags,
                     lists |-> sds[1].lists]>>
    /\ last_op' = "StatDataSource.reload"
    /\ exc' = <<>>
    /\ UNCHANGED <<fs, fi, fds>>
    /\ UNCHANGED <<favVars, sizeVars, uiVars, infoVars>>

\* StatDataSource.tableview_number_of_rows(tableview, section)
StatDataSource_tableview_number_of_rows(d, section) == Len(d.lists[section + 1][2])

(***************************************************************************)
(* The filesystem changes under the program; the item is reloaded.  One    *)
(* data source is built on the item and followed.                          *)
(***************************************************************************)
FsChange ==
    /\ fs' \in FsStates \ {fs}
    /\ last_op' = "filesystem"
    /\ exc' = <<>>
    /\ UNCHANGED <<fi, fds, sds>>
    /\ UNCHANGED <<favVars, sizeVars, uiVars, infoVars>>

\* fi.reload()
FileItemReload ==
    /\ LET r == FileItem_reload(fi.path, fs)
       IN  /\ fi' = r.item
           /\ exc' = r.exc
    /\ last_op' = "FileItem.reload"
    /\ UNCHANGED <<fs, fds, sds>>
    /\ UNCHANGED <<favVars, sizeVars, uiVars, infoVars>>

(***************************************************************************)
(* The table views.  One view of each kind is followed: the favorites      *)
(* list, a file list and a stat view.  A view that a handler builds and    *)
(* pushes is recorded among the handler's effects.  The handlers that      *)
(* ui.in_background defers are modelled at the step their body runs.       *)
(***************************************************************************)
UiFs ==
    [root |-> "dir", listable |-> TRUE, size |-> DirSize,
     child |-> [n \in UiNames |-> IF n = <<"site">> THEN "dir" ELSE "file"]]

\* The favorites the favorites list shows.
UiFavs == {<<"/docs", "Docs">>, <<"/app", "App">>}

UiCall(view, handler, section, row) ==
    [view |-> view, handler |-> handler, section |-> section, row |-> row,
     editing |-> editing[view]]

\* open_path(path)
open_path == <<"editor.open_file", "console.hide_output">>

\* _toggle_edit(sender) of toggle_edit_proxy(view)
toggle_edit(view) ==
    /\ button_title' = [button_title EXCEPT ![view] = IF editing[view] THEN "Edit" ELSE "Done"]
    /\ editing' = [editing EXCEPT ![view] = ~editing[view]]
    /\ ui_call' = UiCall(view, "toggle_edit", 0, 0)
    /\ effects' = <<>>
    /\ exc' = <<>>
    /\ UNCHANGED <<fs, fi, fds, sds, last_op>>
    /\ UNCHANGED <<favVars, sizeVars, infoVars>>

\* FavoritesDataSource.tableview_did_select(tableview, section, row); isdir is
\* what the filesystem holds at entries[row][0]: make_file_list on a FileItem
\* that is no directory raises the TypeError of FileDataSource.reload.
FavoritesDataSource_tableview_did_select(row, isdir) ==
    /\ ui_call' = UiCall("favs", "tableview_did_select", 0, row)
    /\ IF ~editing["favs"]
       THEN IF isdir
            THEN /\ effects' = <<"console.show_activity", "app.push_view(make_file_list)",
                                 "console.hide_activity">>
                 /\ exc' = <<>>
            ELSE /\ effects' = <<"console.show_activity">>
                 /\ exc' = <<"TypeError">>
       ELSE /\ effects' = <<>>
            /\ exc' = <<>>
    /\ UNCHANGED <<editing, button_title>>
    /\ UNCHANGED <<fs, fi, fds, sds, last_op>>
    /\ UNCHANGED <<favVars, sizeVars, infoVars>>

\* FavoritesDataSource.tableview_accessory_button_tapped(tableview, section, row)
FavoritesDataSource_tableview_accessory_button_tapped(row) ==
    /\ ui_call' = UiCall("favs", "tableview_accessory_button_tapped", 0, row)
    /\ effects' = IF ~editing["favs"] THEN <<"app.push_view(make_stat_view)">> ELSE <<>>
    /\ exc' = <<>>
    /\ UNCHANGED <<editing, button_title>>
    /\ UNCHANGED <<fs, fi, fds, sds, last_op>>
    /\ UNCHANGED <<favVars, sizeVars, infoVars>>

\* The dispatch with the group tested before the extension
FileSelectEffects_group_first(section, item) ==
    IF section = 0
    THEN <<"console.show_activity", "app.push_view(make_file_list)", "console.hide_activity">>
    ELSE IF section = 1
    THEN IF item.constants.group \in {"code", "code_tags", "text"}
         THEN open_path \o <<"app.close">>
         ELSE IF item.constants.ext \in {<<"htm">>, <<"html">>}
         THEN <<"webbrowser.open", "app.close">>
         ELSE IF item.constants.group = "audio"
         THEN <<"sound.load_effect", "sound.play_effect">>
         ELSE IF item.constants.group = "image"
         THEN <<"console.show_image">>
         ELSE <<"app.close", "time.sleep", "console.quicklook">>
    ELSE <<>>

\* The calls FileDataSource.tableview_did_select makes for the row's FileItem
FileSelectEffects(section, item) ==
    IF section = 0
    THEN <<"console.show_activity", "app.push_view(make_file_list)", "console.hide_activity">>
    ELSE IF section = 1
    THEN IF item.constants.ext \in {<<"htm">>, <<"html">>}
         THEN <<"webbrowser.open", "app.close">>
         ELSE IF item.constants.group \in {"code", "code_tags", "text"}
         THEN open_path \o <<"app.close">>
         ELSE IF item.constants.group = "audio"
         THEN <<"sound.load_effect", "sound.play_effect">>
         ELSE IF item.constants.group = "image"
         THEN <<"console.show_image">>
         ELSE <<"app.close", "time.sleep", "console.quicklook">>
    ELSE <<>>

\* FileDataSource.tableview_did_select without the test of tableview.editing
tableview_did_select_unguarded(section, row) ==
    /\ ui_call' = UiCall("files", "tableview_did_select", section, row)
    /\ effects' = FileSelectEffects(section, fds[1].lists[section + 1][row + 1])
    /\ exc' = <<>>
    /\ UNCHANGED <<editing, button_title>>
    /\ UNCHANGED <<fs, fi, fds, sds, last_op>>
    /\ UNCHANGED <<favVars, sizeVars, infoVars>>

\* FileDataSource.tableview_did_select(tableview, section, row)
FileDataSource_tableview_did_select(section, row) ==
    /\ ui_call' = UiCall("files", "tableview_did_select", section, row)
    /\ effects' = IF ~editing["files"]
                  THEN FileSelectEffects(section, fds[1].lists[section + 1][row + 1])
                  ELSE <<>>
    /\ exc' = <<>>
    /\ UNCHANGED <<editing, button_title>>
    /\ UNCHANGED <<fs, fi, fds, sds, last_op>>
    /\ UNCHANGED <<favVars, sizeVars, infoVars>>

\* FileDataSource.tableview_accessory_button_tapped(tableview, section, row)
FileDataSource_tableview_accessory_button_tapped(section, row) ==
    /\ ui_call' = UiCall("files", "tableview_accessory_button_tapped", section, row)
    /\ effects' = IF ~editing["files"] THEN <<"app.push_view(make_stat_view)">> ELSE <<>>
    /\ exc' = <<>>
    /\ UNCHANGED <<editing, button_title>>
    /\ UNCHANGED <<fs, fi, fds, sds, last_op>>
    /\ UNCHANGED <<favVars, sizeVars, infoVars>>

\* The calls StatDataSource.tableview_did_select makes for the row's key;
\* exists is os.path.exists(destdir), opened is what console.open_in returns.
StatSelectEffects(key, exists, opened) ==
    LET copy == (IF exists THEN <<>> ELSE <<"os.mkdir">>)
                \o <<"shutil.copy", "editor.reload_files">> \o open_path \o <<"app.close">>
    IN  IF key = "ios.quick_look" THEN <<"app.close", "time.sleep", "console.quicklook">>
        ELSE IF key = "editor.edit" THEN open_path \o <<"app.close">>
        ELSE IF key = "editor.copy_edit" THEN copy
        ELSE IF key = "editor.copy_edit_txt" THEN copy
        ELSE IF key = "console.print_image" THEN <<"console.show_image">>
        ELSE IF key = "sound.play_sound" THEN <<"sound.load_effect", "sound.play_effect">>
        ELSE IF key = "webbrowser.open" THEN <<"webbrowser.open", "app.close">>
        ELSE IF key = "ios.open_in"
        THEN <<"console.open_in">>
             \o (IF opened THEN <<"app.close">> ELSE <<"console.hud_alert">>)
        ELSE <<>>

\* StatDataSource.tableview_did_select(tableview, section, row): it does not
\* test tableview.editing.
StatDataSource_tableview_did_select(section, row, exists, opened) ==
    /\ ui_call' = UiCall("stat", "tableview_did_select", section, row)
    /\ effects' = StatSelectEffects(sds[1].lists[section + 1][2][row + 1].key, exists, opened)
    /\ exc' = <<>>
    /\ UNCHANGED <<editing, button_title>>
    /\ UNCHANGED <<fs, fi, fds, sds, last_op>>
    /\ UNCHANGED <<favVars, sizeVars, infoVars>>

\* StatDataSource.tableview_accessory_button_tapped(tableview, section, row)
StatDataSource_tableview_accessory_button_tapped(section, row) ==
    /\ ui_call' = UiCall("stat", "tableview_accessory_button_tapped", section, row)
    /\ effects' = <<>>
    /\ exc' = <<>>
    /\ UNCHANGED <<editing, button_title>>
    /\ UNCHANGED <<fs, fi, fds, sds, last_op>>
    /\ UNCHANGED <<favVars, sizeVars, infoVars>>

\* The Edit button of make_favs_list and of make_file_list; make_stat_view
\* sets no right_button_items.
ToggleEdit == \E view \in {"favs", "files"} : toggle_edit(view)

FavSelect ==
    \E row \in 0..(Len(entries) - 1) :
        \E isdir \in BOOLEAN : FavoritesDataSource_tableview_did_select(row, isdir)

FavAccessory ==
    \E row \in 0..(Len(entries) - 1) :
        FavoritesDataSource_tableview_accessory_button_tapped(row)

FileSelect ==
    \E section \in 0..(Len(fds[1].lists) - 1) :
        \E row \in 0..(FileDataSource_tableview_number_of_rows(fds[1], section) - 1) :
            FileDataSource_tableview_did_select(section, row)

FileAccessory ==
    \E section \in 0..(Len(fds[1].lists) - 1) :
        \E row \in 0..(FileDataSource_tableview_number_of_rows(fds[1], section) - 1) :
            FileDataSource_tableview_accessory_button_tapped(section, row)

StatSelect ==
    \E section \in 0..(Len(sds[1].lists) - 1) :
        \E row \in 0..(StatDataSource_tableview_number_of_rows(sds[1], section) - 1) :
            \E exists \in BOOLEAN :
                \E opened \in BOOLEAN :
                    StatDataSource_tableview_did_select(section, row, exists, opened)

StatAccessory ==
    \E section \in 0..(Len(sds[1].lists) - 1) :
        \E row \in 0..(StatDataSource_tableview_number_of_rows(sds[1], section) - 1) :
            StatDataSource_tableview_accessory_button_tapped(section, row)

\* make_favs_list on a file of favorites, make_file_list on the directory, and
\* make_stat_view on one of its rows have run.
InitUi ==
    /\ IdleSize
    /\ IdleInfo
    /\ \E es \in SeqsUpTo(UiFavs, MaxFavRows) :
          /\ src_file = JsonDump(es)
          /\ entries = JsonLoad(JsonDump(es))
    /\ fav_call = FavCall("__init__", 0, 0)
    /\ fs = UiFs
    /\ LET d == FileItem_new(<< <<"docs">> >>, UiFs).item
           r == FileDataSource_reload(d, UiFs)
       IN  /\ fi = [d EXCEPT !.contents = r.contents]
           /\ fds = <<[folders |-> r.folders, files |-> r.files,
                       lists |-> <<r.folders, r.files>>]>>
           /\ \E item \in {r.folders[i] : i \in 1..Len(r.folders)}
                          \cup {r.files[i] : i \in 1..Len(r.files)} :
                 LET t == StatDataSource_reload(item)
                 IN  sds = <<[actions |-> t.actions, stats |-> t.stats, flags |-> t.flags,
                              lists |-> StatLists(t)]>>
    /\ last_op = "StatDataSource.__init__"
    /\ exc = <<>>
    /\ IdleUi

NextUi ==
    \/ ToggleEdit
    \/ FavSelect
    \/ FavAccessory
    \/ FileSelect
    \/ FileAccessory
    \/ StatSelect
    \/ StatAccessory

SpecUi == InitUi /\ [][NextUi]_vars

\* fi = FileItem(path) has run, in any filesystem.
InitFile ==
    /\ IdleFav
    /\ IdleInfo
    /\ IdleSize
    /\ IdleUi
    /\ fs \in FsStates
    /\ \E rn \in RootNames :
          /\ fi = FileItem_new(<<rn>>, fs).item
          /\ exc = FileItem_new(<<rn>>, fs).exc
    /\ fds = <<>>
    /\ sds = <<>>
    /\ last_op = "FileItem.__new__"

NextFile ==
    \/ FsChange
    \/ FileItemReload
    \/ FileDataSourceInit
    \/ FileDataSourceReload
    \/ StatDataSourceInit
    \/ StatDataSourceReload

SpecFile == InitFile /\ [][NextFile]_vars

InitFav ==
    /\ IdleSize
    /\ IdleInfo
    /\ IdleFile
    /\ IdleUi
    /\ \E es \in SeqsUpTo(FavEntry, MaxEntries) :
          /\ src_file = JsonDump(es)
          /\ entries = JsonLoad(JsonDump(es))
    /\ fav_call = FavCall("__init__", 0, 0)

FavoritesDataSource_reload ==
    /\ entries' = JsonLoad(src_file)
    /\ fav_call' = FavCall("reload", 0, 0)
    /\ UNCHANGED src_file
    /\ UNCHANGED <<sizeVars, fileVars, uiVars, infoVars>>

\* tableview_delete as written with the save left out
tableview_delete_unsaved(row) ==
    /\ entries' = ListDel(entries, row)
    /\ UNCHANGED src_file
    /\ fav_call' = FavCall("tableview_delete", row, row)
    /\ UNCHANGED <<sizeVars, fileVars, uiVars, infoVars>>

FavoritesDataSource_tableview_delete(row) ==
    /\ entries' = ListDel(entries, row)
    /\ src_file' = JsonDump(entries')
    /\ fav_call' = FavCall("tableview_delete", row, row)
    /\ UNCHANGED <<sizeVars, fileVars, uiVars, infoVars>>

\* tableview_move_row that inserts the copy first and removes from_row afterwards
tableview_move_row_insert_first(from_row, to_row) ==
    /\ entries' = ListDel(ListInsert(entries, to_row, entries[from_row + 1]), from_row)
    /\ src_file' = JsonDump(entries')
    /\ fav_call' = FavCall("tableview_move_row", from_row, to_row)
    /\ UNCHANGED <<sizeVars, fileVars, uiVars, infoVars>>

FavoritesDataSource_tableview_move_row(from_row, to_row) ==
    /\ entries' = ListInsert(ListDel(entries, from_row), to_row, entries[from_row + 1])
    /\ src_file' = JsonDump(entries')
    /\ fav_call' = FavCall("tableview_move_row", from_row, to_row)
    /\ UNCHANGED <<sizeVars, fileVars, uiVars, infoVars>>

FavDelete == \E row \in 0..(Len(entries) - 1) : FavoritesDataSource_tableview_delete(row)

FavMove ==
    \E from_row \in 0..(Len(entries) - 1) :
        \E to_row \in 0..(Len(entries) - 1) :
            FavoritesDataSource_tableview_move_row(from_row, to_row)

NextFav ==
    \/ FavoritesDataSource_reload
    \/ FavDelete
    \/ FavMove

SpecFav == InitFav /\ [][NextFav]_vars

InitSize ==
    /\ IdleFav
    /\ IdleInfo
    /\ IdleFile
    /\ IdleUi
    /\ size \in Sizes
    /\ longf \in BOOLEAN
    /\ result = <<>>

CallFormatSize ==
    /\ result = <<>>
    /\ result' = <<format_size(size, longf)>>
    /\ UNCHANGED <<size, longf>>
    /\ UNCHANGED <<favVars, fileVars, uiVars, infoVars>>

NextSize == CallFormatSize

SpecSize == InitSize /\ [][NextSize]_vars

(***************************************************************************)
(* get_fileinfo on any name of up to MaxParts parts, at a path that is a   *)
(* directory or not.                                                       *)
(***************************************************************************)
NameParts == {"notes", "html", "HTML", "txt", "bin", ""}
InfoNames == UNION {[1..k -> NameParts] : k \in 1..MaxParts}

InitInfo ==
    /\ IdleFav
    /\ IdleSize
    /\ IdleFile
    /\ IdleUi
    /\ \E name \in InfoNames : info_path = << <<"docs">>, name >>
    /\ info_isdir \in BOOLEAN
    /\ info = <<>>

CallGetFileinfo ==
    /\ info = <<>>
    /\ info' = <<get_fileinfo(info_path, info_isdir)>>
    /\ UNCHANGED <<info_path, info_isdir>>
    /\ UNCHANGED <<favVars, sizeVars, fileVars, uiVars>>

NextInfo == CallGetFileinfo

SpecInfo == InitInfo /\ [][NextInfo]_vars

\* C1: after construction and after any sequence of tableview_delete and
\* tableview_move_row calls with valid rows, the JSON list stored in the source
\* file equals the in-memory entries, so a following reload() changes nothing.
C1_FileEqualsEntries == JsonLoad(src_file) = entries

C1_Witness ==
    /\ fav_call.op = "tableview_delete"
    /\ Len(entries) = 2
    /\ entries[1] # entries[2]
    /\ JsonLoad(src_file) = entries

\* The sequence s with its i-th element left out.
Without(s, i) == [k \in 1..(Len(s) - 1) |-> IF k < i THEN s[k] ELSE s[k + 1]]

\* C2: tableview_move_row(from_row, to_row) keeps the n entries, puts the moved
\* entry at index to_row and keeps the others in their previous relative order;
\* tableview_delete(row) removes exactly the entry at row and keeps the others
\* in their previous order.
C2_MoveAndDelete ==
    [][/\ fav_call'.op = "tableview_move_row" =>
            /\ Len(entries') = Len(entries)
            /\ entries'[fav_call'.to_row + 1] = entries[fav_call'.from_row + 1]
            /\ Without(entries', fav_call'.to_row + 1)
                  = Without(entries, fav_call'.from_row + 1)
       /\ fav_call'.op = "tableview_delete" =>
            entries' = Without(entries, fav_call'.from_row + 1)
      ]_vars

C2_Witness ==
    /\ fav_call.op = "tableview_move_row"
    /\ fav_call.from_row = 0
    /\ fav_call.to_row = 2
    /\ Len(entries) = 3
    /\ entries[1] # entries[3]

\* C3: after any call to reload() on a FileDataSource (resp. a StatDataSource),
\* the sections held in self.lists are the folders/files lists (resp. the
\* actions/stats/flags lists) that this reload() just built.
C3_ListsAreCurrent ==
    /\ (last_op = "FileDataSource.reload" /\ exc = <<>>) =>
          fds[1].lists = <<fds[1].folders, fds[1].files>>
    /\ last_op = "StatDataSource.reload" =>
          sds[1].lists = StatLists(sds[1])

\* C4: FileItem.listdir() of a directory item returns the list of entry names
\* (strings) read at the item's last reload, after any sequence of operations.
C4_ListdirReturnsNames ==
    FileItem_isdir(fi) =>
        \A i \in 1..Len(FileItem_listdir(fi).ret) : ~FileItem_listdir(fi).ret[i].isItem

\* C5: the constants of a FileItem stay the same for its path across any
\* sequence of reload() calls, whatever happens to the filesystem between them.
C5_ConstantsStay ==
    [][fi'.path = fi.path => fi'.constants = fi.constants]_vars

\* C6: after reload(), isdir() is true exactly when the path was an existing
\* directory and isfile() exactly when it was an existing regular file.
C6_IsdirIsfile ==
    last_op \in {"FileItem.__new__", "FileItem.reload"} =>
        /\ FileItem_isdir(fi) = os_path_isdir(fs, fi.path)
        /\ FileItem_isfile(fi) = os_path_isfile(fs, fi.path)

\* C7: constructing a FileItem and reload() never raise on a filesystem error:
\* a failed stat leaves stat None, a failed listing of a directory leaves
\* contents the empty list, and the item ends with basetype 0 and a list as
\* contents, or basetype 1 and contents None.
C7_ReloadNeverRaises ==
    last_op \in {"FileItem.__new__", "FileItem.reload"} =>
        /\ exc = <<>>
        /\ os_stat(fs, fi.path).exc # <<>> => fi.stat = <<>>
        /\ (os_path_isdir(fs, fi.path) /\ os_listdir(fs, fi.path).exc # <<>>) =>
              fi.contents = << <<>> >>
        /\ \/ fi.basetype = 0 /\ fi.contents # <<>>
           \/ fi.basetype = 1 /\ fi.contents = <<>>

C7_Witness ==
    /\ last_op = "FileItem.reload"
    /\ fs.root = "dir"
    /\ ~fs.listable
    /\ fs.child[ChildOrder[1]] = "file"
    /\ fi.stat # <<>>
    /\ fi.basetype = 0
    /\ fi.contents = << <<>> >>
    /\ exc = <<>>

\* C10: in every reachable state where a table view built by make_favs_list,
\* make_file_list or make_stat_view is in editing mode, selecting a row or
\* tapping its accessory button triggers no navigation and no file action.
C10_NoActionWhileEditing ==
    (/\ ui_call.handler \in {"tableview_did_select", "tableview_accessory_button_tapped"}
     /\ ui_call.editing) =>
        effects = <<>>

C10_Witness ==
    /\ ui_call.view = "files"
    /\ ui_call.handler = "tableview_did_select"
    /\ ui_call.section = 1
    /\ ui_call.editing
    /\ editing["files"]
    /\ button_title["files"] = "Done"
    /\ effects = <<>>

\* The calls among effects that open, play, preview or show a file.
FileActions == {"webbrowser.open", "editor.open_file", "sound.play_effect",
                "console.show_image", "console.quicklook"}

Made(called) == {called[i] : i \in 1..Len(called)}

\* C11: selecting a row of a file list when not editing runs exactly one
\* action, in this priority: a folder row (section 0) pushes a file list and
\* runs no file action; a file row (section 1) with ext htm or html opens in the
\* browser and closes the app; otherwise group code, code_tags or text opens in
\* the editor and closes the app; otherwise group audio plays the sound and
\* leaves the app open; otherwise group image shows the image and leaves the
\* app open; any other file closes the app and opens Quick Look.
C11_SelectDispatch ==
    (/\ ui_call.view = "files"
     /\ ui_call.handler = "tableview_did_select"
     /\ ~ui_call.editing) =>
        LET c == fds[1].lists[ui_call.section + 1][ui_call.row + 1].constants
            made == Made(effects)
            pushes == "app.push_view(make_file_list)" \in made
            closes == "app.close" \in made
        IN  IF ui_call.section = 0
            THEN pushes /\ made \cap FileActions = {} /\ ~closes
            ELSE /\ ~pushes
                 /\ IF c.ext \in {<<"htm">>, <<"html">>}
                    THEN made \cap FileActions = {"webbrowser.open"} /\ closes
                    ELSE IF c.group \in {"code", "code_tags", "text"}
                    THEN made \cap FileActions = {"editor.open_file"} /\ closes
                    ELSE IF c.group = "audio"
                    THEN made \cap FileActions = {"sound.play_effect"} /\ ~closes
                    ELSE IF c.group = "image"
                    THEN made \cap FileActions = {"console.show_image"} /\ ~closes
                    ELSE made \cap FileActions = {"console.quicklook"} /\ closes

C11_Witness ==
    /\ ui_call.view = "files"
    /\ ui_call.handler = "tableview_did_select"
    /\ ~ui_call.editing
    /\ ui_call.section = 1
    /\ fds[1].lists[2][ui_call.row + 1].constants.ext = <<"html">>
    /\ fds[1].lists[2][ui_call.row + 1].constants.group = "code_tags"
    /\ "webbrowser.open" \in Made(effects)
    /\ "app.close" \in Made(effects)

\* The extensions of a name: its lowercased parts after the first separator.
ExtensionsOf(name) == Tail(LowerAll(name))

\* The last of the extensions that is a key of the type table, None if none is.
LastKnownOf(exts) ==
    LET known == {i \in 1..Len(exts) : exts[i] \in DOMAIN TYPE_GROUPS}
    IN  IF known = {} THEN <<>>
        ELSE <<exts[CHOOSE i \in known : \A j \in known : j <= i]>>

\* C12: get_fileinfo's ext is the last of the name's dot-separated extensions
\* (lowercased) that is a key of the type table, and None when the name has no
\* known extension, in particular when the name holds no extension separator.
C12_LastKnownExtension ==
    info # <<>> => info[1].ext = LastKnownOf(ExtensionsOf(Last(info_path)))

\* C8: for every non-negative size, format_size shortens it to the smallest unit
\* for which the shown value is below 1024: a size under 1024 is shown in bytes,
\* and every larger size is shown with 1 <= value < 1024.
C8_ShownBelow1024 ==
    result # <<>> =>
        IF Below1024(size)
        THEN result[1].suffix = "bytes" /\ result[1].exp = 0
        ELSE /\ result[1].suffix # "bytes"
             /\ result[1].exp = 0
             /\ 100 <= result[1].num
             /\ result[1].num < 102400

\* C9: for every size, format_size(size, longf=True) appends the original size
\* in bytes in parentheses, and format_size(size, longf=False) does not.
C9_LongAppendsBytes ==
    result # <<>> =>
        /\ longf => result[1].bsize = <<size>>
        /\ ~longf => result[1].bsize = <<>>
====
